---- MODULE Spec2Model ----
(***************************************************************************)
(* State-machine model of ShopifyScraper (src/shopify-scraper.js).         *)
(*                                                                         *)
(* One run of scrape() on one storefront.  JavaScript strings are TLA+     *)
(* strings; JavaScript numbers that are prices are integers counted in     *)
(* hundredths (29.99 is 2999); values of mixed JavaScript type (number,    *)
(* string, null, undefined, NaN, {min,max}) are tagged records.            *)
(* The capture timestamp of a record is not modelled.                      *)
(***************************************************************************)
EXTENDS Integers, Sequences, FiniteSets, TLC

VARIABLES
    pc,            \* position of the run inside scrape()
    page,          \* scrapeViaApi: local `page`
    totalProducts, \* scrapeViaApi: local `totalProducts`
    apiSuccess,    \* scrape: const apiSuccess (read once pc = "api_done")
    productsData,  \* this.productsData
    productLinks,  \* scrapeViaHtml: local `productLinks`
    linkIdx,       \* scrapeViaHtml: position of the for..of loop over productLinks
    requests,      \* history: every GET issued through axiosInstance, with how it was
                   \* answered (ok, n entries) and whether handling the answer threw
    outcome,       \* how scrape() completed: "running", "returned" or "thrown"
    ret,           \* the value scrape() returned
    arg,           \* the argument of a helper method called on its own
    result         \* the value that call returned

\* The variables of a run of scrape(), and those of a call of a helper method.
runVars == <<pc, page, totalProducts, apiSuccess, productsData, productLinks,
             linkIdx, requests, outcome, ret>>
callVars == <<arg, result>>
vars == <<runVars, callVars>>

(***************************************************************************)
(* Bounds of the model.                                                    *)
(***************************************************************************)
\* Highest feed page number the model lets the run request.
MaxPages == 2

(***************************************************************************)
(* Program constants.                                                      *)
(***************************************************************************)
\* let limit = 250
limit == 250

\* this.storeUrl after the constructor's normalisation
storeUrl == "https://s.io"

(***************************************************************************)
(* JavaScript values.                                                      *)
(***************************************************************************)
\* The value `undefined` where a string is expected (a missing attribute or field).
Undefined == "<undefined>"

Null == [t |-> "null"]
NaN == [t |-> "nan"]
Undef == [t |-> "undefined"]
Num(c) == [t |-> "num", c |-> c]
Str(s) == [t |-> "str", s |-> s]
Range(lo, hi) == [t |-> "range", min |-> lo, max |-> hi]

\* ToBoolean of a string-or-undefined value
TruthyStr(s) == s # "" /\ s # Undefined

\* ToBoolean of a tagged value
Truthy(v) ==
    CASE v.t = "num" -> v.c # 0
      [] v.t = "str" -> v.s # ""
      [] v.t = "range" -> TRUE
      [] OTHER -> FALSE

(***************************************************************************)
(* String primitives.                                                      *)
(***************************************************************************)
CharAt(s, i) == SubSeq(s, i, i)

\* String.prototype.startsWith
StartsWith(s, p) == Len(s) >= Len(p) /\ SubSeq(s, 1, Len(p)) = p

\* String.prototype.includes
Includes(s, p) == \E i \in 1..(Len(s) - Len(p) + 1) : SubSeq(s, i, i + Len(p) - 1) = p

Digits == {"0", "1", "2", "3", "4", "5", "6", "7", "8", "9"}
IsDigit(c) == c \in Digits
DigitVal(c) ==
    CASE c = "0" -> 0 [] c = "1" -> 1 [] c = "2" -> 2 [] c = "3" -> 3
      [] c = "4" -> 4 [] c = "5" -> 5 [] c = "6" -> 6 [] c = "7" -> 7
      [] c = "8" -> 8 [] c = "9" -> 9

IsSpace(c) == c \in {" ", "\t", "\n", "\r"}

RECURSIVE TrimStart(_)
TrimStart(s) == IF Len(s) > 0 /\ IsSpace(Head(s)) THEN TrimStart(Tail(s)) ELSE s

RECURSIVE TrimEnd(_)
TrimEnd(s) ==
    IF Len(s) > 0 /\ IsSpace(CharAt(s, Len(s)))
    THEN TrimEnd(SubSeq(s, 1, Len(s) - 1))
    ELSE s

\* String.prototype.trim
Trim(s) == TrimEnd(TrimStart(s))

\* Length of the run of decimal digits of s that starts at position i.
RECURSIVE DigitRun(_, _)
DigitRun(s, i) ==
    IF i <= Len(s) /\ IsDigit(CharAt(s, i)) THEN 1 + DigitRun(s, i + 1) ELSE 0

\* Value of the n digits of s that start at position i.
RECURSIVE DigitsVal(_, _, _)
DigitsVal(s, i, n) ==
    IF n = 0 THEN 0
    ELSE 10 * DigitsVal(s, i, n - 1) + DigitVal(CharAt(s, i + n - 1))

\* parseFloat: leading white space, an optional sign, digits, an optional
\* fraction; the longest such prefix is the number, NaN when it holds no
\* digit.  The value is in hundredths (fraction digits after the second are
\* dropped); exponents and Infinity are not modelled.
ParseFloat(str) ==
    LET s == TrimStart(str)
        signed == Len(s) > 0 /\ Head(s) \in {"+", "-"}
        neg == Len(s) > 0 /\ Head(s) = "-"
        b == IF signed THEN 2 ELSE 1
        ni == DigitRun(s, b)
        hasDot == b + ni <= Len(s) /\ CharAt(s, b + ni) = "."
        nf == IF hasDot THEN DigitRun(s, b + ni + 1) ELSE 0
        f1 == IF nf >= 1 THEN DigitVal(CharAt(s, b + ni + 1)) ELSE 0
        f2 == IF nf >= 2 THEN DigitVal(CharAt(s, b + ni + 2)) ELSE 0
        mag == 100 * DigitsVal(s, b, ni) + 10 * f1 + f2
    IN  IF ni = 0 /\ nf = 0 THEN NaN ELSE Num(IF neg THEN 0 - mag ELSE mag)

(***************************************************************************)
(* Sequence primitives.                                                    *)
(***************************************************************************)
\* Array.prototype.includes
SeqIncludes(s, x) == \E i \in 1..Len(s) : s[i] = x

Range1(s) == {s[i] : i \in 1..Len(s)}

SetMin(S) == CHOOSE x \in S : \A y \in S : x <= y
SetMax(S) == CHOOSE x \in S : \A y \in S : x >= y

\* Array.prototype.filter
RECURSIVE FilterTruthyStr(_)
FilterTruthyStr(s) ==
    IF s = <<>> THEN <<>>
    ELSE IF TruthyStr(Head(s)) THEN <<Head(s)>> \o FilterTruthyStr(Tail(s))
    ELSE FilterTruthyStr(Tail(s))

\* [...new Set(s)]: the first occurrence of every element, in order
RECURSIVE SetOrder(_)
SetOrder(s) ==
    IF s = <<>> THEN <<>>
    ELSE LET init == SetOrder(SubSeq(s, 1, Len(s) - 1))
             x == s[Len(s)]
         IN  IF SeqIncludes(init, x) THEN init ELSE Append(init, x)

(***************************************************************************)
(* Normalisation: cleanDescription, normalizeImageUrls, getProductPrice,   *)
(* extractPrice.                                                           *)
(***************************************************************************)
UpperLetters == "ABCDEFGHIJKLMNOPQRSTUVWXYZ"
LowerLetters == "abcdefghijklmnopqrstuvwxyz"

LowerChar(c) ==
    IF \E i \in 1..26 : CharAt(UpperLetters, i) = c
    THEN CharAt(LowerLetters, CHOOSE i \in 1..26 : CharAt(UpperLetters, i) = c)
    ELSE c

RECURSIVE ToLower(_)
ToLower(s) == IF Len(s) = 0 THEN "" ELSE LowerChar(Head(s)) \o ToLower(Tail(s))

\* Least position j >= i at which p occurs in s; 0 when there is none.
FindFrom(s, p, i) ==
    LET at == {j \in i..(Len(s) - Len(p) + 1) : SubSeq(s, j, j + Len(p) - 1) = p}
    IN  IF at = {} THEN 0 ELSE SetMin(at)

\* s.replace(/<tag[^>]*>[\s\S]*?<\/tag>/gi, '') applied to s from position i on;
\* low is s in lower case (the i flag).
RECURSIVE StripFrom(_, _, _, _)
StripFrom(s, low, tag, i) ==
    LET open == "<" \o tag
        close == "</" \o tag \o ">"
        p == FindFrom(low, open, i)
        q == IF p = 0 THEN 0 ELSE FindFrom(low, ">", p + Len(open))
        r == IF q = 0 THEN 0 ELSE FindFrom(low, close, q + 1)
    IN  IF p = 0 \/ r = 0 THEN SubSeq(s, i, Len(s))
        ELSE SubSeq(s, i, p - 1) \o StripFrom(s, low, tag, r + Len(close))

StripBlocks(s, tag) == StripFrom(s, ToLower(s), tag, 1)

cleanDescription(html) ==
    IF ~TruthyStr(html) THEN ""
    ELSE Trim(StripBlocks(StripBlocks(html, "style"), "script"))

NormalizeOne(imageUrl) ==
    IF ~TruthyStr(imageUrl) THEN Undefined
    ELSE IF ~StartsWith(imageUrl, "http") THEN "https:" \o imageUrl
    ELSE imageUrl

\* the value normalizeImageUrls leaves in product.images
normalizeImageUrls(images) ==
    FilterTruthyStr([i \in 1..Len(images) |-> NormalizeOne(images[i])])

\* Mutant of getProductPrice: the price of the first variant alone.
getProductPrice_FirstVariant(product) ==
    IF product.hasVariants /\ Len(product.variants) > 0
    THEN ParseFloat(product.variants[1].price)
    ELSE Null

getProductPrice(product) ==
    IF product.hasVariants /\ Len(product.variants) > 0
    THEN LET parsed == [i \in 1..Len(product.variants) |->
                            ParseFloat(product.variants[i].price)]
             prices == {parsed[i].c : i \in {j \in 1..Len(parsed) : parsed[j] # NaN}}
         IN  IF prices = {} THEN Null
             ELSE LET minPrice == SetMin(prices)
                      maxPrice == SetMax(prices)
                  IN  IF minPrice = maxPrice THEN Num(minPrice)
                      ELSE Range(minPrice, maxPrice)
    ELSE Null

priceSelectors ==
    << ".price__regular .price-item--regular", ".product__price",
       ".price-item--sale", ".product-single__price", ".price .money",
       ".product-price", "[data-product-price]" >>

IsPriceChar(c) == IsDigit(c) \/ c = "," \/ c = "."

RECURSIVE PriceRun(_, _)
PriceRun(s, i) ==
    IF i <= Len(s) /\ IsPriceChar(CharAt(s, i)) THEN 1 + PriceRun(s, i + 1) ELSE 0

\* priceText.match(/[\d,.]+/): the first maximal run, Undefined for no match
MatchPriceToken(s) ==
    LET at == {i \in 1..Len(s) : IsPriceChar(CharAt(s, i))}
    IN  IF at = {} THEN Undefined
        ELSE LET i == SetMin(at) IN SubSeq(s, i, i + PriceRun(s, i) - 1)

\* .replace(/,/g, '')
RECURSIVE RemoveCommas(_)
RemoveCommas(s) ==
    IF Len(s) = 0 THEN ""
    ELSE (IF Head(s) = "," THEN "" ELSE Head(s)) \o RemoveCommas(Tail(s))

\* extractPrice from selector k on; text[k] is the text of the first element
\* selector k matches, Undefined when it matches none.
RECURSIVE ExtractPriceFrom(_, _)
ExtractPriceFrom(text, k) ==
    IF k > Len(priceSelectors) THEN Null
    ELSE IF text[k] = Undefined THEN ExtractPriceFrom(text, k + 1)
    ELSE LET matches == MatchPriceToken(Trim(text[k]))
         IN  IF matches = Undefined THEN ExtractPriceFrom(text, k + 1)
             ELSE ParseFloat(RemoveCommas(matches))

extractPrice(markup) == ExtractPriceFrom(markup.priceText, 1)

(***************************************************************************)
(* The storefront's feed: what GET /products.json?page=N&limit=250 may     *)
(* answer.                                                                 *)
(***************************************************************************)
EntryKinds == {"plain", "range", "dup", "neg", "noprice", "novariants", "noimages"}

Variant(p) == [price |-> p]
Image(u) == [src |-> u]

\* A raw feed entry, by kind.  "noimages" has no `images` field at all.
RawEntry(kind) ==
    CASE kind = "plain" ->
            [handle |-> "plain", title |-> "Plain", body_html |-> "<p>x</p>",
             hasVariants |-> TRUE, variants |-> <<Variant("19.99")>>,
             hasImages |-> TRUE, images |-> <<Image("https://cdn.x/p.jpg")>>]
      [] kind = "range" ->
            [handle |-> "range", title |-> "Range",
             body_html |-> " <STYLE a>b</style><p>y</p><script>z</script> ",
             hasVariants |-> TRUE,
             variants |-> <<Variant("24.50"), Variant("abc"), Variant("19.99"),
                            Variant("24.50")>>,
             hasImages |-> TRUE,
             images |-> <<Image("//cdn.x/a.jpg"), Image("https://cdn.x/b.jpg")>>]
      [] kind = "dup" ->
            [handle |-> "dup", title |-> "Dup", body_html |-> Undefined,
             hasVariants |-> TRUE,
             variants |-> <<Variant("5"), Variant("5.00")>>,
             hasImages |-> TRUE,
             images |-> <<Image("https://cdn.x/a.jpg"), Image("//cdn.x/b.jpg"),
                          Image("https://cdn.x/a.jpg")>>]
      [] kind = "neg" ->
            [handle |-> "neg", title |-> "Neg", body_html |-> "",
             hasVariants |-> TRUE, variants |-> <<Variant("-5.00")>>,
             hasImages |-> TRUE,
             images |-> <<Image(Undefined), Image(""), Image("https://cdn.x/n.jpg")>>]
      [] kind = "noprice" ->
            [handle |-> "noprice", title |-> "NoPrice", body_html |-> "<p>n</p>",
             hasVariants |-> TRUE, variants |-> <<Variant("abc"), Variant(Undefined)>>,
             hasImages |-> TRUE, images |-> <<>>]
      [] kind = "novariants" ->
            [handle |-> "novariants", title |-> "NoVariants", body_html |-> "<p>v</p>",
             hasVariants |-> FALSE, variants |-> <<>>,
             hasImages |-> TRUE, images |-> <<Image("cdn.x/r.jpg")>>]
      [] kind = "noimages" ->
            [handle |-> "noimages", title |-> "NoImages", body_html |-> "<p>i</p>",
             hasVariants |-> TRUE, variants |-> <<Variant("1.00")>>,
             hasImages |-> FALSE, images |-> <<>>]

\* Entry i of feed page p: its id names its place in the feed.
Entry(kind, p, i) == [id |-> <<p, i>>, raw |-> RawEntry(kind)]

\* Entry counts a page may hold, besides none.
PageCounts == {1, limit - 1, limit}

\* A page of n entries: plain ones, and one of the given kind at the end.
Products(p, n, kind) ==
    [i \in 1..n |-> Entry(IF i = n THEN kind ELSE "plain", p, i)]

\* axios' answer to the request for feed page p: a transport or parse error,
\* a body without `products`, or a body with the products of the page.
FeedResponses(p) ==
    {[ok |-> FALSE, hasProducts |-> FALSE, products |-> <<>>],
     [ok |-> TRUE, hasProducts |-> FALSE, products |-> <<>>],
     [ok |-> TRUE, hasProducts |-> TRUE, products |-> <<>>]}
    \cup
    {[ok |-> TRUE, hasProducts |-> TRUE, products |-> Products(p, n, k)] :
        n \in PageCounts, k \in EntryKinds}

(***************************************************************************)
(* scrapeViaApi.                                                           *)
(***************************************************************************)
\* The fields of productData that are made from the entry's content, after
\* normalizeImageUrls, tabulated over the entries a feed page can hold.
MappedFields ==
    [raw \in {RawEntry(kind) : kind \in EntryKinds} |->
        [handle |-> raw.handle,
         title |-> raw.title,
         description |-> cleanDescription(raw.body_html),
         price |-> getProductPrice(raw),
         images |-> normalizeImageUrls(
                        [i \in 1..Len(raw.images) |-> raw.images[i].src]),
         url |-> storeUrl \o "/products/" \o raw.handle,
         variants |-> raw.variants]]

\* productData of one feed entry, after normalizeImageUrls
FeedRecord(product) ==
    LET mapped == MappedFields[product.raw]
    IN  [id |-> product.id,
         handle |-> mapped.handle,
         title |-> mapped.title,
         description |-> mapped.description,
         price |-> mapped.price,
         images |-> mapped.images,
         url |-> mapped.url,
         variants |-> mapped.variants]

\* product.images.map throws a TypeError when the entry has no `images`
EntryThrows(product) == ~product.raw.hasImages

\* Position of the first entry whose mapping throws; 0 when none does.
FirstThrow(products) ==
    LET at == {i \in 1..Len(products) : EntryThrows(products[i])}
    IN  IF at = {} THEN 0 ELSE SetMin(at)

\* Mutant of IsLastPage: a short page does not end the loop.
IsLastPage_Never(n) == FALSE

\* Mutant of IsLastPage: the comparison is off by one.
IsLastPage_OffByOne(n) == n < limit - 1

\* if (products.length < limit) hasMoreProducts = false
IsLastPage(n) == n < limit


\* page++
NextPage(p) == p + 1

\* Mutant of PushAll: the records of a page go in front of the list.
PushAll_InFront(data, records) == records \o data
\* Mutant of PushAll: the list is started again with the new records.
PushAll_Replace(data, records) == records

\* this.productsData.push(productData), for every entry mapped
PushAll(data, records) == data \o records

\* Mutant of EmptyPageResult: an empty page is a failure on every page.
EmptyPageResult_AlwaysFails(p, total) == FALSE

\* What scrapeViaApi returns when page p holds no entry: false on page 1
\* (line 138), totalProducts > 0 after the loop otherwise (line 144).
EmptyPageResult(p, total) == IF p = 1 THEN FALSE ELSE total > 0

\* One iteration of the while loop: the request for `page`, the mapping of
\* its entries, the continuation decision; on the last iteration, or on an
\* exception (the catch), the return of scrapeViaApi.
scrapeViaApi ==
    /\ UNCHANGED callVars
    /\ pc = "api"
    /\ page <= MaxPages
    /\ \E resp \in FeedResponses(page) :
        /\ requests' = Append(requests,
                [kind |-> "feed", page |-> page, url |-> storeUrl \o "/products.json",
                 ok |-> resp.ok, n |-> Len(resp.products),
                 threw |-> FirstThrow(resp.products) # 0])
        /\ IF ~resp.ok
           THEN /\ apiSuccess' = FALSE
                /\ pc' = "api_done"
                /\ UNCHANGED <<page, totalProducts, productsData>>
           ELSE IF resp.hasProducts /\ Len(resp.products) > 0
           THEN LET products == resp.products
                    thrown == FirstThrow(products)
                    mapped == IF thrown = 0 THEN products
                              ELSE SubSeq(products, 1, thrown - 1)
                IN  /\ totalProducts' = totalProducts + Len(products)
                    /\ productsData' = PushAll(productsData,
                            [i \in 1..Len(mapped) |-> FeedRecord(mapped[i])])
                    /\ IF thrown # 0
                       THEN /\ apiSuccess' = FALSE
                            /\ pc' = "api_done"
                            /\ page' = page
                       ELSE IF IsLastPage(Len(products))
                       THEN /\ apiSuccess' = (totalProducts' > 0)
                            /\ pc' = "api_done"
                            /\ page' = page
                       ELSE /\ apiSuccess' = apiSuccess
                            /\ pc' = "api"
                            /\ page' = NextPage(page)
           ELSE /\ apiSuccess' = EmptyPageResult(page, totalProducts)
                /\ pc' = "api_done"
                /\ UNCHANGED <<page, totalProducts, productsData>>
    /\ UNCHANGED <<productLinks, linkIdx, outcome, ret>>

(***************************************************************************)
(* The storefront's pages: the catalog page and the product pages.         *)
(***************************************************************************)
\* The href of every <a> of a catalog page, in document order (Undefined:
\* the element has no href).
Catalogs ==
    { <<>>,
      <<"/products/a", "/about", "/products/a?ref=1", "https://s.io/products/a">>,
      <<"collections/all/products/b", "/products/c", Undefined, "/products/b">>,
      <<"/products/d", "/products/c", "/products/d">> }

NoPriceText == [k \in 1..7 |-> Undefined]

Img(src, dataSrc) == [src |-> src, dataSrc |-> dataSrc]

\* A <script type="application/ld+json"> block: whether JSON.parse accepts
\* it, and what the parsed object holds.
Block(type, name, price, lowPrice, isArray, image) ==
    [parses |-> TRUE, type |-> type, name |-> name, description |-> "<p>" \o name \o "</p>",
     hasOffers |-> TRUE, price |-> price, lowPrice |-> lowPrice,
     imageIsArray |-> isArray, image |-> image]
BadBlock ==
    [parses |-> FALSE, type |-> "", name |-> "", description |-> "",
     hasOffers |-> FALSE, price |-> Undef, lowPrice |-> Undef,
     imageIsArray |-> FALSE, image |-> <<>>]

Markup(title, h1, desc, priceText, imgs) ==
    [title |-> title, h1 |-> h1, desc |-> desc, priceText |-> priceText, imgs |-> imgs]

\* The page the storefront serves for a product handle.
PageOf(handle) ==
    CASE handle = "a" ->
            [blocks |-> <<Block("Product", "A", Str("29.99"), Undef, FALSE,
                                <<"//cdn.x/a.jpg">>)>>,
             markup |-> Markup("", " A ", <<Undefined, Undefined, Undefined>>,
                               NoPriceText, <<>>)]
      [] handle = "b" ->
            [blocks |-> <<Block("Product", "B1", Num(700), Undef, FALSE,
                                <<"https://cdn.x/b1.jpg">>),
                          BadBlock,
                          Block("Product", "B2", Num(0), Num(1000), TRUE,
                                <<"https://cdn.x/b.jpg", "/b2.jpg",
                                  "https://cdn.x/b.jpg">>),
                          Block("BreadcrumbList", "Crumbs", Undef, Undef, FALSE,
                                <<Undefined>>)>>,
             markup |-> Markup("B", "", <<Undefined, "<p>b</p>", Undefined>>,
                               [NoPriceText EXCEPT ![2] = "$12.00"], <<>>)]
      [] handle = "c" ->
            [blocks |-> <<>>,
             markup |-> Markup(" C ", "Other", <<"", Undefined, " <p>c</p> ">>,
                               [NoPriceText EXCEPT ![3] = "Sale", ![5] = "$1,299.00"],
                               << Img("//cdn.x/products/c_100x100.jpg",
                                      "//cdn.x/products/c-lazy.jpg"),
                                  Img("/logo.png", Undefined),
                                  Img("https://cdn.x/products/c.jpg", Undefined),
                                  Img("//cdn.x/products/c_200x200.jpg", ""),
                                  Img(Undefined, "//cdn.x/products/c-only.jpg") >>)]
      [] OTHER ->
            [blocks |-> <<BadBlock,
                          Block("Organization", "Org", Undef, Undef, FALSE,
                                <<"https://cdn.x/org.png">>)>>,
             markup |-> Markup("", "", <<Undefined, Undefined, Undefined>>,
                               [NoPriceText EXCEPT ![1] = "U.S. $5.00"],
                               << Img("/products/d.jpg", "https://cdn.x/products/d.jpg") >>)]

(***************************************************************************)
(* scrapeViaHtml: discovery.                                               *)
(***************************************************************************)
\* the fullUrl of an href
FullUrl(href) ==
    IF StartsWith(href, "http") THEN href
    ELSE storeUrl \o (IF StartsWith(href, "/") THEN href ELSE "/" \o href)

\* $('a[href*="/products/"]') and the test inside the callback
IsProductHref(href) == TruthyStr(href) /\ Includes(href, "/products/")

\* Mutant of Discover: the duplicate check is made on the href as written.
RECURSIVE Discover_RawDedupe(_, _)
Discover_RawDedupe(anchors, n) ==
    IF n = 0 THEN <<>>
    ELSE LET found == Discover_RawDedupe(anchors, n - 1)
             href == anchors[n]
         IN  IF IsProductHref(href) /\ ~SeqIncludes(SubSeq(anchors, 1, n - 1), href)
             THEN Append(found, FullUrl(href))
             ELSE found

\* productLinks after the .each over the first n anchors
RECURSIVE Discover(_, _)
Discover(anchors, n) ==
    IF n = 0 THEN <<>>
    ELSE LET found == Discover(anchors, n - 1)
             href == anchors[n]
         IN  IF IsProductHref(href) /\ ~SeqIncludes(found, FullUrl(href))
             THEN Append(found, FullUrl(href))
             ELSE found

(***************************************************************************)
(* scrapeProductPage.                                                      *)
(***************************************************************************)
LastIndexOf(s, c) ==
    LET at == {i \in 1..Len(s) : CharAt(s, i) = c}
    IN  IF at = {} THEN 0 ELSE SetMax(at)

\* url.split('/').pop().split('?')[0]
HandleOf(url) ==
    LET last == SubSeq(url, LastIndexOf(url, "/") + 1, Len(url))
        q == FindFrom(last, "?", 1)
    IN  IF q = 0 THEN last ELSE SubSeq(last, 1, q - 1)

\* Mutant of StructuredIndex: the first Product block is kept.
StructuredIndex_First(blocks) ==
    LET at == {i \in 1..Len(blocks) : blocks[i].parses /\ blocks[i].type = "Product"}
    IN  IF at = {} THEN 0 ELSE SetMin(at)

\* The .each over the ld+json blocks: the last block that parses and has
\* @type Product; 0 when there is none (structuredData stays null).
StructuredIndex(blocks) ==
    LET at == {i \in 1..Len(blocks) : blocks[i].parses /\ blocks[i].type = "Product"}
    IN  IF at = {} THEN 0 ELSE SetMax(at)

\* structuredData.offers?.price || structuredData.offers?.lowPrice || this.extractPrice($)
StructuredPrice(block, markup) ==
    LET price == IF block.hasOffers THEN block.price ELSE Undef
        lowPrice == IF block.hasOffers THEN block.lowPrice ELSE Undef
    IN  IF Truthy(price) THEN price
        ELSE IF Truthy(lowPrice) THEN lowPrice
        ELSE extractPrice(markup)

\* Array.isArray(structuredData.image) ? structuredData.image : [structuredData.image]
\* (block.image holds the array, or the single value as its only element)
StructuredImages(block) ==
    IF block.imageIsArray THEN block.image ELSE <<block.image[1]>>

\* productData of the structured-data tier
StructuredRecord(url, block, markup) ==
    [id |-> HandleOf(url),
     handle |-> HandleOf(url),
     title |-> block.name,
     description |-> cleanDescription(block.description),
     price |-> StructuredPrice(block, markup),
     images |-> StructuredImages(block),
     url |-> url]

\* Length of the run of digits of s that ends at position i.
RECURSIVE DigitRunBack(_, _)
DigitRunBack(s, i) ==
    IF i >= 1 /\ IsDigit(CharAt(s, i)) THEN 1 + DigitRunBack(s, i - 1) ELSE 0

\* imgSrc.replace(/(\.[^.]+)(_[0-9]+x[0-9]+)(\.[^.]+)$/, '$1$3')
FullSizeUrl(imgSrc) ==
    LET d3 == LastIndexOf(imgSrc, ".")
        h == DigitRunBack(imgSrc, d3 - 1)
        x == d3 - 1 - h
        w == DigitRunBack(imgSrc, x - 1)
        u == x - 1 - w
        d1 == LastIndexOf(SubSeq(imgSrc, 1, u - 1), ".")
        matches == /\ d3 >= 1 /\ d3 < Len(imgSrc)
                   /\ h >= 1 /\ x >= 1 /\ CharAt(imgSrc, x) = "x"
                   /\ w >= 1 /\ u >= 1 /\ CharAt(imgSrc, u) = "_"
                   /\ d1 >= 1 /\ d1 < u - 1
    IN  IF matches THEN SubSeq(imgSrc, 1, u - 1) \o SubSeq(imgSrc, d3, Len(imgSrc))
        ELSE imgSrc

\* Mutant of ImgSrc: data-src is read first.
ImgSrc_DataFirst(img) == IF TruthyStr(img.dataSrc) THEN img.dataSrc ELSE img.src

\* $(element).attr('src') || $(element).attr('data-src')
ImgSrc(img) == IF TruthyStr(img.src) THEN img.src ELSE img.dataSrc

\* $('img[src*="/products/"]')
IsProductImg(img) == img.src # Undefined /\ Includes(img.src, "/products/")

\* `images` after the .each over the first n img elements
RECURSIVE MarkupImages(_, _)
MarkupImages(imgs, n) ==
    IF n = 0 THEN <<>>
    ELSE LET images == MarkupImages(imgs, n - 1)
             imgSrc == ImgSrc(imgs[n])
             fullSizeUrl == FullSizeUrl(imgSrc)
         IN  IF IsProductImg(imgs[n]) /\ TruthyStr(imgSrc)
             THEN Append(images, IF StartsWith(fullSizeUrl, "http") THEN fullSizeUrl
                                 ELSE "https:" \o fullSizeUrl)
             ELSE images

\* a || b over text() results
FirstTruthy(a, b) == IF TruthyStr(a) THEN a ELSE b

\* $(s1).html() || $(s2).html() || $(s3).html()
MarkupDescription(desc) == FirstTruthy(desc[1], FirstTruthy(desc[2], desc[3]))

\* productData of the markup tier
MarkupRecord(url, markup) ==
    [id |-> HandleOf(url),
     handle |-> HandleOf(url),
     title |-> FirstTruthy(Trim(markup.title), Trim(markup.h1)),
     description |-> cleanDescription(MarkupDescription(markup.desc)),
     price |-> extractPrice(markup),
     images |-> SetOrder(MarkupImages(markup.imgs, Len(markup.imgs))),
     url |-> url]

\* The record scrapeProductPage pushes for a fetched page.  After the push
\* of a structured-data record the call of this.downloadProductImages, a
\* method the class does not define, throws a TypeError; the catch of
\* scrapeProductPage swallows it.
PageRecord(url, pg) ==
    LET k == StructuredIndex(pg.blocks)
    IN  IF k # 0 THEN StructuredRecord(url, pg.blocks[k], pg.markup)
        ELSE MarkupRecord(url, pg.markup)

\* Mutant of PagePushes: after the failure that follows the push of the
\* structured-data record, the markup tier runs as well.
PagePushes_FallThrough(url, pg) ==
    IF StructuredIndex(pg.blocks) # 0
    THEN <<PageRecord(url, pg), MarkupRecord(url, pg.markup)>>
    ELSE <<PageRecord(url, pg)>>

\* Everything scrapeProductPage pushes for a fetched page: one record.  The
\* TypeError after the structured-data push leaves the function through its
\* catch, past the markup tier.
PagePushes(url, pg) == <<PageRecord(url, pg)>>

\* Mutant of AfterProductPage: a failed page ends the loop.
AfterProductPage_Abort(i, failed) ==
    IF failed \/ i >= Len(productLinks) THEN "save" ELSE "crawl"

\* What the for..of loop of scrapeViaHtml does after scrapeProductPage has
\* returned for link i; scrapeProductPage catches its own failures, so the
\* loop goes on whether or not the page failed.
AfterProductPage(i, failed) == IF i < Len(productLinks) THEN "crawl" ELSE "save"

(***************************************************************************)
(* scrape(): the remaining steps.                                          *)
(***************************************************************************)
\* Mutant of NeedsFallback: the crawl runs whatever the feed reported.
NeedsFallback_Always(success) == TRUE

\* if (!apiSuccess) await this.scrapeViaHtml()
NeedsFallback(success) == ~success

scrapeFallback ==
    /\ UNCHANGED callVars
    /\ pc = "api_done"
    /\ pc' = IF NeedsFallback(apiSuccess) THEN "html" ELSE "save"
    /\ UNCHANGED <<page, totalProducts, apiSuccess, productsData, productLinks,
                   linkIdx, requests, outcome, ret>>

\* scrapeViaHtml up to its for..of loop: the catalog request and discovery.
\* A failed request is caught and scrapeViaHtml returns false, a value
\* scrape() does not read.
scrapeViaHtml ==
    /\ UNCHANGED callVars
    /\ pc = "html"
    /\ \E ok \in BOOLEAN, anchors \in Catalogs :
        /\ ok \/ anchors = <<>>
        /\ requests' = Append(requests,
                [kind |-> "catalog", page |-> 0, url |-> storeUrl \o "/collections/all",
                 ok |-> ok, n |-> Len(anchors), threw |-> FALSE])
        /\ IF ok
           THEN /\ productLinks' = Discover(anchors, Len(anchors))
                /\ linkIdx' = 1
                /\ pc' = IF Len(productLinks') = 0 THEN "save" ELSE "crawl"
           ELSE /\ pc' = "save"
                /\ UNCHANGED <<productLinks, linkIdx>>
    /\ UNCHANGED <<page, totalProducts, apiSuccess, productsData, outcome, ret>>

\* One iteration of the for..of loop: scrapeProductPage(productLinks[linkIdx]).
scrapeProductPage ==
    /\ UNCHANGED callVars
    /\ pc = "crawl"
    /\ linkIdx <= Len(productLinks)
    /\ LET url == productLinks[linkIdx]
       IN  \E ok \in BOOLEAN :
            /\ requests' = Append(requests,
                    [kind |-> "product", page |-> 0, url |-> url, ok |-> ok, n |-> 0,
                     threw |-> FALSE])
            /\ productsData' = IF ok
                               THEN PushAll(productsData,
                                            PagePushes(url, PageOf(HandleOf(url))))
                               ELSE productsData
            /\ pc' = AfterProductPage(linkIdx, ~ok)
    /\ linkIdx' = linkIdx + 1
    /\ UNCHANGED <<page, totalProducts, apiSuccess, productLinks, outcome, ret>>

\* Mutant of SaveFailed: scrape() has no catch and the write error escapes.
SaveFailed_Propagates == [outcome |-> "thrown", ret |-> <<>>]

\* How scrape() completes when saveProductsData throws: its catch returns [].
SaveFailed == [outcome |-> "returned", ret |-> <<>>]

\* this.saveProductsData(); return this.productsData  -- or the catch
saveProductsData ==
    /\ UNCHANGED callVars
    /\ pc = "save"
    /\ \E written \in BOOLEAN :
        IF written
        THEN outcome' = "returned" /\ ret' = productsData
        ELSE outcome' = SaveFailed.outcome /\ ret' = SaveFailed.ret
    /\ pc' = "done"
    /\ UNCHANGED <<page, totalProducts, apiSuccess, productsData, productLinks,
                   linkIdx, requests>>

(***************************************************************************)
(* The specification.                                                      *)
(***************************************************************************)
Init ==
    /\ pc = "api"
    /\ page = 1
    /\ totalProducts = 0
    /\ apiSuccess = FALSE
    /\ productsData = <<>>
    /\ productLinks = <<>>
    /\ linkIdx = 1
    /\ requests = <<>>
    /\ outcome = "running"
    /\ ret = <<>>
    /\ arg = <<>>
    /\ result = <<>>

Next ==
    \/ scrapeViaApi
    \/ scrapeFallback
    \/ scrapeViaHtml
    \/ scrapeProductPage
    \/ saveProductsData

Spec == Init /\ [][Next]_vars

\* Every await of the run completes (a response or an error, the request
\* timeout at the latest), and nothing else runs beside it: a step that can
\* be taken is taken.
FairSpec == Spec /\ WF_vars(Next)

(***************************************************************************)
(* getProductPrice called on its own, on every feed entry of a bounded     *)
(* set.                                                                    *)
(***************************************************************************)
\* Longest `variants` array of the entries tried.
MaxVariants == 3

\* The `price` of a variant: decimal strings, text, a missing field.
VariantPrices == {"19.99", "24.50", "5", "5.00", "-5.00", "abc", Undefined}

RECURSIVE SeqsUpTo(_, _)
SeqsUpTo(S, n) ==
    IF n = 0 THEN {<<>>}
    ELSE LET shorter == SeqsUpTo(S, n - 1)
         IN  shorter \cup {Append(q, x) : q \in shorter, x \in S}

\* Entries with a `variants` array of up to MaxVariants variants, and the
\* entry without one.
PricedEntries ==
    {[hasVariants |-> TRUE, variants |-> [k \in 1..Len(q) |-> Variant(q[k])]] :
        q \in SeqsUpTo(VariantPrices, MaxVariants)}
    \cup {[hasVariants |-> FALSE, variants |-> <<>>]}

InitPrice ==
    /\ pc = "price"
    /\ page = 1
    /\ totalProducts = 0
    /\ apiSuccess = FALSE
    /\ productsData = <<>>
    /\ productLinks = <<>>
    /\ linkIdx = 1
    /\ requests = <<>>
    /\ outcome = "running"
    /\ ret = <<>>
    /\ arg \in PricedEntries
    /\ result = <<>>

callGetProductPrice ==
    /\ pc = "price"
    /\ result' = getProductPrice(arg)
    /\ pc' = "priced"
    /\ UNCHANGED <<page, totalProducts, apiSuccess, productsData, productLinks,
                   linkIdx, requests, outcome, ret, arg>>

SpecPrice == InitPrice /\ [][callGetProductPrice]_vars

(***************************************************************************)
(* scrapeProductPage's extraction called on its own, on every page of a    *)
(* bounded set.                                                            *)
(***************************************************************************)
\* Most ld+json blocks on a page tried.
MaxBlocks == 3

\* Blocks a page is made of: one JSON.parse rejects, one of another type,
\* two Product blocks.
BlockChoices ==
    {BadBlock,
     Block("Organization", "Org", Undef, Undef, FALSE, <<"https://cdn.x/org.png">>),
     Block("Product", "P1", Num(700), Undef, FALSE, <<"https://cdn.x/p1.jpg">>),
     Block("Product", "P2", Str("29.99"), Undef, TRUE,
           <<"https://cdn.x/p2.jpg", "https://cdn.x/p2b.jpg">>)}

\* offers.price and offers.lowPrice as the metadata may give them.
OfferPrices == {Undef, Num(0), Num(700), Str("29.99"), Str("")}
LowPrices == {Undef, Num(0), Num(1000)}

PageMarkup(priceText) ==
    Markup("M", "H", <<Undefined, "<p>m</p>", Undefined>>, priceText,
           <<Img("https://cdn.x/products/m.jpg", Undefined)>>)

PricedMarkups == {PageMarkup(NoPriceText), PageMarkup([NoPriceText EXCEPT ![2] = "$12.00"])}

\* Pages with up to MaxBlocks blocks, and pages with one Product block for
\* every combination of offer price, low price and price markup.
ExtractionPages ==
    {[blocks |-> q, markup |-> PageMarkup([NoPriceText EXCEPT ![2] = "$12.00"])] :
        q \in SeqsUpTo(BlockChoices, MaxBlocks)}
    \cup
    {[blocks |-> <<[Block("Product", "P", p, l, FALSE, <<"https://cdn.x/p.jpg">>)
                        EXCEPT !.hasOffers = o]>>,
      markup |-> m] :
        p \in OfferPrices, l \in LowPrices, o \in BOOLEAN, m \in PricedMarkups}

PageUrl == storeUrl \o "/products/p?ref=1"

InitPage ==
    /\ pc = "page"
    /\ page = 1
    /\ totalProducts = 0
    /\ apiSuccess = FALSE
    /\ productsData = <<>>
    /\ productLinks = <<>>
    /\ linkIdx = 1
    /\ requests = <<>>
    /\ outcome = "running"
    /\ ret = <<>>
    /\ arg \in ExtractionPages
    /\ result = <<>>

callPagePushes ==
    /\ pc = "page"
    /\ result' = PagePushes(PageUrl, arg)
    /\ pc' = "paged"
    /\ UNCHANGED <<page, totalProducts, apiSuccess, productsData, productLinks,
                   linkIdx, requests, outcome, ret, arg>>

SpecPage == InitPage /\ [][callPagePushes]_vars

(***************************************************************************)
(* scrapeViaHtml's link discovery called on its own, on every catalog page *)
(* of a bounded set.                                                       *)
(***************************************************************************)
\* Most anchors on a catalog page tried.
MaxAnchors == 3

\* href attributes of the anchors: site-relative, absolute, with a query
\* string, without a leading slash, protocol-relative, not of a product,
\* empty, and no href at all.
Hrefs ==
    {"/products/a", storeUrl \o "/products/a", "/products/a?ref=1", "products/b",
     "//s.io/products/a", "/about", "", Undefined}

InitCatalog ==
    /\ pc = "catalog"
    /\ page = 1
    /\ totalProducts = 0
    /\ apiSuccess = FALSE
    /\ productsData = <<>>
    /\ productLinks = <<>>
    /\ linkIdx = 1
    /\ requests = <<>>
    /\ outcome = "running"
    /\ ret = <<>>
    /\ arg \in SeqsUpTo(Hrefs, MaxAnchors)
    /\ result = <<>>

callDiscover ==
    /\ pc = "catalog"
    /\ result' = Discover(arg, Len(arg))
    /\ pc' = "discovered"
    /\ UNCHANGED <<page, totalProducts, apiSuccess, productsData, productLinks,
                   linkIdx, requests, outcome, ret, arg>>

SpecCatalog == InitCatalog /\ [][callDiscover]_vars

(***************************************************************************)
(* The normalisation helpers called on their own, on every image list and  *)
(* description of a bounded set.                                           *)
(***************************************************************************)
\* Most pieces a description is put together from, most images of a list.
MaxPieces == 3
MaxImages == 2

\* Pieces of descriptions: text, blocks the sanitiser strips, and halves of
\* a tag that meet once a block between them is gone.
Pieces ==
    {"<p>d</p>", " ", "<script>a</script>", "<STYLE>c</style>", "<scr", "ipt>b</script>"}

RECURSIVE Concat(_)
Concat(q) == IF q = <<>> THEN "" ELSE Head(q) \o Concat(Tail(q))

Descriptions == {Concat(q) : q \in SeqsUpTo(Pieces, MaxPieces)} \cup {Undefined}

ImageUrls == {"//cdn.x/a.jpg", "https://cdn.x/b.jpg", "http://cdn.x/c.jpg", "", Undefined}

\* Records before normalisation: every description with one image list,
\* every image list with one description.
RawRecords ==
    {[images |-> <<"//cdn.x/a.jpg">>, html |-> h] : h \in Descriptions}
    \cup {[images |-> q, html |-> "<p>d</p>"] : q \in SeqsUpTo(ImageUrls, MaxImages)}

InitNormalize ==
    /\ pc = "normalize"
    /\ page = 1
    /\ totalProducts = 0
    /\ apiSuccess = FALSE
    /\ productsData = <<>>
    /\ productLinks = <<>>
    /\ linkIdx = 1
    /\ requests = <<>>
    /\ outcome = "running"
    /\ ret = <<>>
    /\ arg \in RawRecords
    /\ result = <<>>

callNormalize ==
    /\ pc = "normalize"
    /\ result' = [images |-> normalizeImageUrls(arg.images),
                  description |-> cleanDescription(arg.html)]
    /\ pc' = "normalized"
    /\ UNCHANGED <<page, totalProducts, apiSuccess, productsData, productLinks,
                   linkIdx, requests, outcome, ret, arg>>

SpecNormalize == InitNormalize /\ [][callNormalize]_vars

(***************************************************************************)
(* Vocabulary of the claims.                                               *)
(***************************************************************************)
\* Only scrapeViaApi gives a record a `variants` field.
IsFeedRecord(r) == "variants" \in DOMAIN r

IsFeedRequest(r) == r.kind = "feed"
IsProductRequest(r) == r.kind = "product"
IsCatalogRequest(r) == r.kind = "catalog"

FeedRequests == SelectSeq(requests, IsFeedRequest)
ProductRequests == SelectSeq(requests, IsProductRequest)
CatalogRequests == SelectSeq(requests, IsCatalogRequest)
CrawlRecords == SelectSeq(productsData, LAMBDA r : ~IsFeedRecord(r))

NoFeedRecord(list) == \A i \in 1..Len(list) : ~IsFeedRecord(list[i])

\* scrapeViaApi has returned
ApiReturned == pc # "api"

(***************************************************************************)
(* C1: in scrapeViaApi, a page whose response holds fewer than 250         *)
(* entries (zero included) is the last page requested: no feed request     *)
(* follows it in the run.                                                  *)
(***************************************************************************)
C1_ShortPageIsLast ==
    \A i \in 1..Len(requests) :
        (IsFeedRequest(requests[i]) /\ requests[i].ok /\ requests[i].n < limit)
            => \A j \in (i + 1)..Len(requests) : ~IsFeedRequest(requests[j])

\* Page 2 came back with 249 entries and the run went on to its end.
C1_Witness ==
    /\ pc = "done"
    /\ \E i \in 1..Len(requests) :
        IsFeedRequest(requests[i]) /\ requests[i].page = 2 /\ requests[i].n = limit - 1

(***************************************************************************)
(* C2: after a transport or parse error on a feed page, scrapeViaApi       *)
(* reports failure and the result list holds no feed-sourced record when   *)
(* the fallback crawl starts and in what scrape() returns.                 *)
(***************************************************************************)
C2_FailedFeedLeavesNoRecord ==
    (\E i \in 1..Len(requests) : IsFeedRequest(requests[i]) /\ ~requests[i].ok)
        => /\ ApiReturned => ~apiSuccess
           /\ pc = "html" => NoFeedRecord(productsData)
           /\ outcome = "returned" => NoFeedRecord(ret)

(***************************************************************************)
(* C3: the feed strategy runs first; the page crawl starts if and only if  *)
(* the feed strategy has returned failure, and it returns failure exactly  *)
(* for zero entries on page 1 or an error; after a success no catalog or   *)
(* product page is fetched.                                                *)
(***************************************************************************)
LastFeedRequest == FeedRequests[Len(FeedRequests)]

FeedFailure ==
    \/ ~LastFeedRequest.ok
    \/ LastFeedRequest.threw
    \/ LastFeedRequest.page = 1 /\ LastFeedRequest.n = 0

C3_FallbackIffFeedFailed ==
    /\ requests # <<>> => IsFeedRequest(requests[1])
    /\ \A i \in 1..Len(requests) :
        ~IsFeedRequest(requests[i]) => ApiReturned /\ ~apiSuccess
    /\ ApiReturned => (apiSuccess <=> ~FeedFailure)
    /\ pc \in {"html", "crawl"} => ~apiSuccess
    /\ pc \in {"save", "done"} => (CatalogRequests # <<>> <=> ~apiSuccess)

\* The feed answered page 1 with no entry and the crawl is under way.
C3_Witness ==
    /\ pc = "crawl"
    /\ requests[1].ok /\ requests[1].n = 0
    /\ IsCatalogRequest(requests[2])

(***************************************************************************)
(* C4: whatever fails (feed request, catalog request, product requests,    *)
(* the write of the file), scrape() completes by returning a list: the     *)
(* result list or the empty list; no exception leaves scrape().            *)
(***************************************************************************)
C4_ScrapeAlwaysReturns ==
    /\ outcome # "thrown"
    /\ pc = "done" => outcome = "returned" /\ (ret = productsData \/ ret = <<>>)
    /\ pc # "done" => outcome = "running"

\* The feed request, a product request and the write all failed.
C4_Witness ==
    /\ pc = "done"
    /\ ~requests[1].ok
    /\ \E i \in 1..Len(requests) : IsProductRequest(requests[i]) /\ ~requests[i].ok
    /\ productsData # <<>> /\ ret = <<>>

(***************************************************************************)
(* C5: a product page that fails does not end the crawl: the discovered    *)
(* URLs are requested once each, in discovery order, whichever of them     *)
(* failed, and every page that did not fail has its record in the list.    *)
(***************************************************************************)
OkProductRequests == SelectSeq(ProductRequests, LAMBDA r : r.ok)

C5_CrawlVisitsEveryLink ==
    LET pr == ProductRequests
        done == OkProductRequests
        recs == CrawlRecords
    IN  /\ Len(pr) <= Len(productLinks)
        /\ \A i \in 1..Len(pr) : pr[i].url = productLinks[i]
        /\ pc \in {"save", "done"} => Len(pr) = Len(productLinks)
        /\ Len(recs) = Len(done)
        /\ \A i \in 1..Len(recs) : recs[i].url = done[i].url

\* The first of three pages failed, the second did not, the third was requested.
C5_Witness ==
    /\ Len(ProductRequests) = 3
    /\ ~ProductRequests[1].ok /\ ProductRequests[2].ok
    /\ Len(CrawlRecords) >= 1

(***************************************************************************)
(* C6: every record of the result list, whichever tier made it, has only   *)
(* scheme-qualified URLs in images; //cdn.x/a.jpg in a Product block       *)
(* becomes https://cdn.x/a.jpg.                                            *)
(***************************************************************************)
SchemeQualified(u) == StartsWith(u, "http:") \/ StartsWith(u, "https:")

C6_ImagesSchemeQualified ==
    \A i \in 1..Len(productsData) :
        \A k \in 1..Len(productsData[i].images) :
            SchemeQualified(productsData[i].images[k])

(***************************************************************************)
(* C7: the price of a feed record, over the variant prices that parse as   *)
(* numbers: the one value when the least and the greatest are equal, the   *)
(* range {min, max} when they differ, null when the entry has no variant   *)
(* or none of its prices parses.                                           *)
(***************************************************************************)
\* The numbers among the variant prices of an entry.
ParsedPrices(product) ==
    {ParseFloat(product.variants[k].price).c :
        k \in {j \in 1..Len(product.variants) :
                    ParseFloat(product.variants[j].price) # NaN}}

IsLeast(x, S) == x \in S /\ \A y \in S : x <= y
IsGreatest(x, S) == x \in S /\ \A y \in S : x >= y

PriceAgrees(price, S) ==
    /\ S = {} <=> price = Null
    /\ (S # {} /\ \E x \in S : IsLeast(x, S) /\ IsGreatest(x, S))
            => price.t = "num" /\ IsLeast(price.c, S)
    /\ (S # {} /\ ~\E x \in S : IsLeast(x, S) /\ IsGreatest(x, S))
            => /\ price.t = "range"
               /\ IsLeast(price.min, S)
               /\ IsGreatest(price.max, S)

C7_FeedPriceIsMinOrRange ==
    pc = "priced" => PriceAgrees(result, ParsedPrices(arg))

\* A range came out of three variants, one of which has no number.
C7_Witness ==
    /\ pc = "priced"
    /\ result.t = "range"
    /\ Len(arg.variants) = 3
    /\ \E k \in 1..3 : ParseFloat(arg.variants[k].price) = NaN

(***************************************************************************)
(* C8: in every record a numeric price is non-negative and a range price   *)
(* has min < max.                                                          *)
(***************************************************************************)
C8_PriceNonNegative ==
    \A i \in 1..Len(productsData) :
        LET price == productsData[i].price
        IN  /\ price.t # "nan"
            /\ price.t = "num" => price.c >= 0
            /\ price.t = "range" => price.min < price.max

(***************************************************************************)
(* C9: in every record, whichever tier made it, no URL occurs twice in     *)
(* images.                                                                 *)
(***************************************************************************)
NoDuplicates(s) == \A a, b \in 1..Len(s) : a # b => s[a] # s[b]

C9_ImagesDistinct ==
    \A i \in 1..Len(productsData) : NoDuplicates(productsData[i].images)

(***************************************************************************)
(* C10: in the markup tier, an image element matched by the selector that  *)
(* has both a src and a data-src contributes the URL of its data-src.      *)
(* As amended: it contributes the URL of its src, and its data-src is not  *)
(* read.                                                                   *)
(***************************************************************************)
\* The URL the markup tier makes of an attribute value.
FinalUrl(v) ==
    LET full == FullSizeUrl(v)
    IN  IF StartsWith(full, "http") THEN full ELSE "https:" \o full

\* The matched image elements of the page a markup-tier record was made from.
MatchedImgs(r) ==
    LET imgs == PageOf(HandleOf(r.url)).markup.imgs
    IN  {imgs[k] : k \in {j \in 1..Len(imgs) : IsProductImg(imgs[j])}}

IsMarkupRecord(r) ==
    ~IsFeedRecord(r) /\ StructuredIndex(PageOf(HandleOf(r.url)).blocks) = 0

HasBoth(img) == TruthyStr(img.src) /\ TruthyStr(img.dataSrc)

\* the claim as stated
C10_DataSrcPreferred ==
    \A i \in 1..Len(productsData) :
        IsMarkupRecord(productsData[i]) =>
            \A img \in MatchedImgs(productsData[i]) :
                HasBoth(img) => SeqIncludes(productsData[i].images, FinalUrl(img.dataSrc))

\* the claim as amended
C10_SrcTaken ==
    \A i \in 1..Len(productsData) :
        IsMarkupRecord(productsData[i]) =>
            /\ \A img \in MatchedImgs(productsData[i]) :
                HasBoth(img) => SeqIncludes(productsData[i].images, FinalUrl(img.src))
            /\ Range1(productsData[i].images) =
                    {FinalUrl(img.src) : img \in MatchedImgs(productsData[i])}

\* The list holds the markup-tier record of a page with such an element.
C10_Witness ==
    \E i \in 1..Len(productsData) :
        /\ IsMarkupRecord(productsData[i])
        /\ \E img \in MatchedImgs(productsData[i]) :
            HasBoth(img) /\ FinalUrl(img.dataSrc) # FinalUrl(img.src)

(***************************************************************************)
(* C11: when the feed strategy reports success after pages 1..k, the pages *)
(* requested are 1, 2, ..., k in that order, none skipped or repeated, and *)
(* the result list is one record per returned entry, in page order and in  *)
(* entry order within a page.                                              *)
(***************************************************************************)
\* The number of entries the first k feed requests returned.
RECURSIVE EntriesBefore(_, _)
EntriesBefore(fr, k) == IF k = 0 THEN 0 ELSE EntriesBefore(fr, k - 1) + fr[k].n

C11_FeedOrderKept ==
    (ApiReturned /\ apiSuccess) =>
        LET fr == FeedRequests
        IN  /\ \A k \in 1..Len(fr) : fr[k].page = k
            /\ Len(productsData) = EntriesBefore(fr, Len(fr))
            /\ \A k \in 1..Len(fr) :
                \A i \in 1..fr[k].n :
                    /\ IsFeedRecord(productsData[EntriesBefore(fr, k - 1) + i])
                    /\ productsData[EntriesBefore(fr, k - 1) + i].id = <<k, i>>

\* Success after a full page 1 and a page 2 of 249 entries: 499 records.
C11_Witness ==
    /\ pc = "done" /\ apiSuccess
    /\ Len(FeedRequests) = 2 /\ FeedRequests[2].n = limit - 1
    /\ Len(productsData) = 2 * limit - 1

(***************************************************************************)
(* C12: a page with zero entries that follows full pages is the last page: *)
(* the feed strategy reports success, the records of the earlier pages are *)
(* kept and the page crawl is not run; a zero-entry page is a failure only *)
(* as page 1.                                                              *)
(***************************************************************************)
C12_EmptyLaterPageIsSuccess ==
    (ApiReturned /\ LastFeedRequest.ok /\ LastFeedRequest.n = 0) =>
        /\ apiSuccess <=> LastFeedRequest.page > 1
        /\ LastFeedRequest.page > 1 =>
            /\ Len(productsData) = limit * (LastFeedRequest.page - 1)
            /\ \A i \in 1..Len(productsData) : IsFeedRecord(productsData[i])
            /\ \A i \in 1..Len(requests) : IsFeedRequest(requests[i])
            /\ pc \in {"api_done", "save", "done"}

\* A full page 1, an empty page 2, and the run ended with the 250 records.
C12_Witness ==
    /\ pc = "done"
    /\ LastFeedRequest.page = 2 /\ LastFeedRequest.ok /\ LastFeedRequest.n = 0
    /\ Len(ret) = limit

(***************************************************************************)
(* C13: of several ld+json blocks the record is made from the last one, in *)
(* document order, that parses and has type Product; a block that does not *)
(* parse changes nothing of that choice and does not make the page be      *)
(* skipped; when no block qualifies the markup tier makes the record.      *)
(***************************************************************************)
Qualifying(blocks) ==
    {i \in 1..Len(blocks) : blocks[i].parses /\ blocks[i].type = "Product"}

Parsing(b) == b.parses

C13_LastProductBlockWins ==
    pc = "paged" =>
        LET q == Qualifying(arg.blocks)
        IN  /\ Len(result) = 1
            /\ q = {} => /\ result[1].title = Trim(arg.markup.title)
                         /\ result[1].description = "<p>m</p>"
            /\ q # {} =>
                \E i \in q :
                    /\ \A j \in q : j <= i
                    /\ result[1].title = arg.blocks[i].name
                    /\ result[1].description = arg.blocks[i].description
                    /\ result[1].images = arg.blocks[i].image
            /\ result = PagePushes(PageUrl,
                            [arg EXCEPT !.blocks = SelectSeq(arg.blocks, Parsing)])

\* Two different Product blocks with a block that does not parse after them.
C13_Witness ==
    /\ pc = "paged"
    /\ Len(arg.blocks) = 3
    /\ arg.blocks[1].name = "P2" /\ arg.blocks[2].name = "P1" /\ ~arg.blocks[3].parses
    /\ result[1].title = "P1"

(***************************************************************************)
(* C14: in the structured-data tier the record's price is the offer price  *)
(* whenever the metadata has one, whatever its value (0 included); the low *)
(* price only when the offer price is absent; the markup price only when   *)
(* both are absent.                                                        *)
(***************************************************************************)
Absent(block, v) == ~block.hasOffers \/ v = Undef

C14_OfferPriceFirst ==
    (pc = "paged" /\ Qualifying(arg.blocks) # {}) =>
        LET block == arg.blocks[SetMax(Qualifying(arg.blocks))]
        IN  result[1].price =
                IF ~Absent(block, block.price) THEN block.price
                ELSE IF ~Absent(block, block.lowPrice) THEN block.lowPrice
                ELSE extractPrice(arg.markup)

(***************************************************************************)
(* C15: catalog discovery gives a list of absolute product URLs, no two    *)
(* equal, in order of first occurrence on the catalog page; a relative     *)
(* href is resolved against the store URL before the duplicate check, and  *)
(* links that differ only in the query string are both kept.               *)
(***************************************************************************)
Absolute(u) == StartsWith(u, "http://") \/ StartsWith(u, "https://")

ProductAnchors(anchors) ==
    {k \in 1..Len(anchors) : anchors[k] # Undefined /\ Includes(anchors[k], "/products/")}

\* An href resolved against the store URL.
Resolved(href) ==
    IF Absolute(href) THEN href
    ELSE IF StartsWith(href, "/") THEN storeUrl \o href
    ELSE storeUrl \o "/" \o href

\* The first anchor of the page that resolves to u.
FirstAnchor(anchors, u) ==
    SetMin({k \in ProductAnchors(anchors) : Resolved(anchors[k]) = u})

C16_AppendOnly ==
    [][/\ Len(productsData') >= Len(productsData)
       /\ SubSeq(productsData', 1, Len(productsData)) = productsData]_vars

\* A run that kept the records of feed page 1 through a feed failure, a
\* crawl with a failed page, and a failed write.
C16_Witness ==
    /\ pc = "done"
    /\ ret = <<>>
    /\ ~LastFeedRequest.ok
    /\ \E i \in 1..Len(ProductRequests) : ~ProductRequests[i].ok
    /\ Len(CrawlRecords) >= 1
    /\ Len(productsData) = limit + Len(CrawlRecords)

(***************************************************************************)
(* C18: every crawled product URL gives at most one record, made by        *)
(* exactly one tier: the structured-data tier when a Product block was     *)
(* found, else the markup tier, never both; the failure that follows the   *)
(* push of the structured-data record neither removes it nor adds a second *)
(* record.                                                                 *)
(***************************************************************************)
C18_OneRecordOneTier ==
    LET done == OkProductRequests
        recs == CrawlRecords
    IN  /\ Len(recs) = Len(done)
        /\ \A i \in 1..Len(recs) :
            LET url == done[i].url
                pg == PageOf(HandleOf(url))
                q == Qualifying(pg.blocks)
            IN  IF q # {}
                THEN /\ recs[i] = StructuredRecord(url, pg.blocks[SetMax(q)], pg.markup)
                     /\ recs[i] # MarkupRecord(url, pg.markup)
                ELSE recs[i] = MarkupRecord(url, pg.markup)

\* A structured-data page and a markup page crawled one after the other.
C18_Witness ==
    /\ Len(OkProductRequests) >= 2
    /\ Len(CrawlRecords) = Len(OkProductRequests)
    /\ \E i, j \in 1..Len(OkProductRequests) :
        /\ Qualifying(PageOf(HandleOf(OkProductRequests[i].url)).blocks) # {}
        /\ Qualifying(PageOf(HandleOf(OkProductRequests[j].url)).blocks) = {}

(***************************************************************************)
(* C17: normalisation is idempotent: normalizeImageUrls and                *)
(* cleanDescription applied to a record that was already normalised leave  *)
(* its images and its description as they are.                             *)
(***************************************************************************)
C17_NormalizeIdempotent ==
    pc = "normalized" =>
        /\ normalizeImageUrls(result.images) = result.images
        /\ cleanDescription(result.description) = result.description

(***************************************************************************)
(* C19: when every request returns or fails, and the feed at some page     *)
(* returns fewer than 250 entries or an error, the run of scrape()         *)
(* terminates; the pagination loop has no cap of its own: after a full     *)
(* page the next page is requested, whatever the page number.              *)
(***************************************************************************)
FullPage(r) == IsFeedRequest(r) /\ r.ok /\ ~r.threw /\ r.n = limit

ShortOrFailedPage ==
    \E i \in 1..Len(requests) : IsFeedRequest(requests[i]) /\ ~FullPage(requests[i])

====
